---- MODULE Spec2Model ----
(***************************************************************************)
(* Model of the voice-notes keyword tagger (tagger.js).                    *)
(*                                                                         *)
(* A JavaScript string is a sequence of characters.  A character is a      *)
(* one-letter TLA+ string; a character outside ASCII is written by its     *)
(* code point, "U+0131".  A JavaScript value is a record with the fields   *)
(* type, num and str, of which num and str are meaningful for numbers,     *)
(* booleans and strings only.                                              *)
(***************************************************************************)
EXTENDS Integers, Sequences, FiniteSets, TLC

VARIABLES
  input,    \* the argument `text` of the call
  pc,       \* "ready": not yet called, "returned": returned, "threw": raised
  lower,    \* the local `lower` of the call (<<>> when the guard returned)
  scores,   \* the local `scores` of the call (<<>> when the guard returned)
  result,   \* the value returned
  \* Several callers, each call taken one statement at a time:
  taxonomy, \* the contents of the module-scope object TAG_KEYWORDS
  cpc,      \* per caller: "idle", the line its call is at, "returned", "threw"
  arg,      \* per caller: the argument it passed to its current call
  locals,   \* per activation record: text, lower, scores and the array chain
  received, \* per caller: the value its current call returned
  returned, \* the calls completed so far, in order: argument and value
  ncalls,   \* the number of calls made so far
  \* The application (app.js):
  notes,    \* the IndexedDB object store 'notes', by note id
  cards,    \* the note cards on the page, by note id
  mode,     \* list.mode of the open list: "capture" or "accomplish"
  pending,  \* per note id: the note object a running analysis holds
  \* The record button (app.js):
  recordBusy,    \* the flag recordBusy
  isRecording,   \* the flag isRecording
  currentListId, \* the open list, or "null"
  mediaRecorder, \* "null", or the state of the recorder: "recording", "inactive"
  recordHint,    \* recordHint.textContent
  hpc,           \* per click handler run: "idle" or the await it is suspended at
  clicks,        \* the number of clicks so far
  ignored,       \* the number of clicks that returned at the busy guard
  \* The sentiment model loader (analysis.js):
  sentimentPipeline, \* "null" or "model"
  pipelineLoading,   \* 0 for null, or the number of the load its promise belongs to
  loads,             \* the loads started so far, in order: the state of each
  loaderLog,         \* what each call of the loader returned, in order
  \* Speech transcription (app.js):
  speechRecognition,   \* 0 for null, or the number of the recognizer referred to
  transcriptionResult, \* the text accumulated, as the sequence of its phrases
  recognizers,         \* the recognizers created so far: state and handlers
  stops                \* the calls of stopTranscription so far: their promises

tagVars == <<input, pc, lower, scores, result>>
callVars == <<taxonomy, cpc, arg, locals, received, returned, ncalls>>
appVars == <<notes, cards, mode, pending>>
recVars == <<recordBusy, isRecording, currentListId, mediaRecorder, recordHint,
             hpc, clicks, ignored>>
loadVars == <<sentimentPipeline, pipelineLoading, loads, loaderLog>>
sttVars == <<speechRecognition, transcriptionResult, recognizers, stops>>
vars == <<input, pc, lower, scores, result,
          taxonomy, cpc, arg, locals, received, returned, ncalls,
          notes, cards, mode, pending,
          recordBusy, isRecording, currentListId, mediaRecorder, recordHint,
          hpc, clicks, ignored,
          sentimentPipeline, pipelineLoading, loads, loaderLog,
          speechRecognition, transcriptionResult, recognizers, stops>>

\* Largest number of phrases concatenated into one transcript.
MaxFrags == 3

\* Largest number of calls the callers make between them.
MaxCalls == 3

\* The number of clicks on the record button that are followed.
MaxClicks == 4

\* Largest number of notes in a list, and largest length of its noteOrder.
MaxNotes == 3
MaxOrder == 2

\* Largest number of recognizers created, of calls of stopTranscription, and
\* of phrases recognized.
MaxRecognizers == 3
MaxStops == 2
MaxPhrases == 2

\* Largest number of model loads started, and of calls of the loader.
MaxLoads == 3
MaxLoaderCalls == 6

\* The callers that invoke tagTranscript side by side.
Callers == {"c1", "c2"}

(***************************************************************************)
(* The taxonomy, in declaration order (Object.entries order).              *)
(***************************************************************************)
TAG_KEYWORDS ==
  <<
    [tag |-> "idea", keywords |-> <<
         <<"w","h","a","t"," ","i","f">>,
         <<"i","d","e","a">>,
         <<"i","m","a","g","i","n","e">>,
         <<"c","o","u","l","d"," ","w","e">>,
         <<"c","o","n","c","e","p","t">>,
         <<"b","r","a","i","n","s","t","o","r","m">>,
         <<"t","h","i","n","k","i","n","g"," ","a","b","o","u","t">>,
         <<"m","a","y","b","e"," ","w","e"," ","s","h","o","u","l","d">>,
         <<"h","o","w"," ","a","b","o","u","t">>,
         <<"w","o","n","d","e","r"," ","i","f">> >>],
    [tag |-> "todo", keywords |-> <<
         <<"n","e","e","d"," ","t","o">>,
         <<"h","a","v","e"," ","t","o">>,
         <<"g","o","t","t","a">>,
         <<"m","u","s","t">>,
         <<"d","o","n","'","t"," ","f","o","r","g","e","t">>,
         <<"r","e","m","e","m","b","e","r"," ","t","o">>,
         <<"s","h","o","u","l","d">>,
         <<"t","a","s","k">>,
         <<"t","o"," ","d","o">>,
         <<"t","o","-","d","o">>,
         <<"m","a","k","e"," ","s","u","r","e">> >>],
    [tag |-> "reminder", keywords |-> <<
         <<"r","e","m","i","n","d">>,
         <<"a","p","p","o","i","n","t","m","e","n","t">>,
         <<"d","e","a","d","l","i","n","e">>,
         <<"b","y"," ","t","o","m","o","r","r","o","w">>,
         <<"b","y"," ","m","o","n","d","a","y">>,
         <<"b","y"," ","f","r","i","d","a","y">>,
         <<"d","u","e">>,
         <<"s","c","h","e","d","u","l","e">>,
         <<"d","o","n","'","t"," ","f","o","r","g","e","t">>,
         <<"o","'","c","l","o","c","k">>,
         <<"a",".","m",".">>,
         <<"p",".","m",".">> >>],
    [tag |-> "journal", keywords |-> <<
         <<"f","e","e","l","i","n","g">>,
         <<"f","e","l","t">>,
         <<"t","o","d","a","y"," ","w","a","s">>,
         <<"m","y"," ","d","a","y">>,
         <<"g","r","a","t","e","f","u","l">>,
         <<"t","h","a","n","k","f","u","l">>,
         <<"r","e","f","l","e","c","t","i","n","g">>,
         <<"i"," ","t","h","i","n","k">>,
         <<"i"," ","f","e","e","l">>,
         <<"b","e","e","n"," ","t","h","i","n","k","i","n","g">> >>],
    [tag |-> "work", keywords |-> <<
         <<"m","e","e","t","i","n","g">>,
         <<"p","r","o","j","e","c","t">>,
         <<"c","l","i","e","n","t">>,
         <<"t","e","a","m">>,
         <<"o","f","f","i","c","e">>,
         <<"d","e","a","d","l","i","n","e">>,
         <<"p","r","e","s","e","n","t","a","t","i","o","n">>,
         <<"e","m","a","i","l">>,
         <<"b","o","s","s">>,
         <<"c","o","w","o","r","k","e","r">>,
         <<"s","p","r","i","n","t">>,
         <<"s","t","a","n","d","u","p">>,
         <<"r","e","v","i","e","w">> >>],
    [tag |-> "personal", keywords |-> <<
         <<"f","a","m","i","l","y">>,
         <<"d","o","c","t","o","r">>,
         <<"g","y","m">>,
         <<"w","o","r","k","o","u","t">>,
         <<"g","r","o","c","e","r","y">>,
         <<"d","i","n","n","e","r">>,
         <<"w","e","e","k","e","n","d">>,
         <<"v","a","c","a","t","i","o","n">>,
         <<"b","i","r","t","h","d","a","y">>,
         <<"f","r","i","e","n","d">>,
         <<"k","i","d","s">>,
         <<"h","o","m","e">> >>]
  >>

\* The category names, and the position of each in the declaration order.
TagNames == {TAG_KEYWORDS[i].tag : i \in 1..Len(TAG_KEYWORDS)}

(***************************************************************************)
(* JavaScript values.                                                      *)
(***************************************************************************)
JSValue(t, n, s) == [type |-> t, num |-> n, str |-> s]
JSString(s) == JSValue("string", 0, s)

\* The typeof operator.
typeof(v) ==
  CASE v.type \in {"null", "array", "object"} -> "object"
    [] OTHER -> v.type

\* ToBoolean(v) = false: what `!v` tests.
Falsy(v) ==
  \/ v.type \in {"null", "undefined"}
  \/ v.type = "number" /\ v.num = 0
  \/ v.type = "boolean" /\ v.num = 0
  \/ v.type = "string" /\ v.str = <<>>

(***************************************************************************)
(* String.prototype.toLowerCase and toUpperCase, by the Unicode default    *)
(* case mappings of the characters the transcripts below are made of.      *)
(***************************************************************************)
UpperLetters ==
  <<"A","B","C","D","E","F","G","H","I","J","K","L","M",
    "N","O","P","Q","R","S","T","U","V","W","X","Y","Z">>
LowerLetters ==
  <<"a","b","c","d","e","f","g","h","i","j","k","l","m",
    "n","o","p","q","r","s","t","u","v","w","x","y","z">>

\* The ASCII letters' case mappings, as tables.
LowerOf == [c \in {UpperLetters[i] : i \in 1..26} |->
              LowerLetters[CHOOSE i \in 1..26 : UpperLetters[i] = c]]
UpperOf == [c \in {LowerLetters[i] : i \in 1..26} |->
              UpperLetters[CHOOSE i \in 1..26 : LowerLetters[i] = c]]

\* The lowercase mapping of one character: a sequence, since U+0130
\* (capital I with dot above) lowercases to two characters.
lowerChar(c) ==
  IF c \in DOMAIN LowerOf THEN <<LowerOf[c]>>
  ELSE IF c = "U+0130" THEN <<"i", "U+0307">>
  ELSE IF c = "U+212A" THEN <<"k">>
  ELSE <<c>>

\* The uppercase mapping of one character: U+0131 (dotless i) uppercases to
\* "I", U+017F (long s) to "S", U+00DF (sharp s) to "SS".
upperChar(c) ==
  IF c \in DOMAIN UpperOf THEN <<UpperOf[c]>>
  ELSE IF c = "U+0131" THEN <<"I">>
  ELSE IF c = "U+017F" THEN <<"S">>
  ELSE IF c = "U+00DF" THEN <<"S", "S">>
  ELSE <<c>>

\* No case conversion at all.
noLowerCase(s) == s

RECURSIVE toLowerCase(_)
toLowerCase(s) ==
  IF s = <<>> THEN <<>> ELSE lowerChar(Head(s)) \o toLowerCase(Tail(s))

RECURSIVE toUpperCase(_)
toUpperCase(s) ==
  IF s = <<>> THEN <<>> ELSE upperChar(Head(s)) \o toUpperCase(Tail(s))

\* A letter of either case.
IsLetter(c) == c \in DOMAIN LowerOf \/ c \in DOMAIN UpperOf

\* A search anchored at word boundaries: kw must not touch a letter.
includesWord(s, kw) ==
  \E i \in 1..(Len(s) - Len(kw) + 1) :
    /\ \A j \in 1..Len(kw) : s[i + j - 1] = kw[j]
    /\ i > 1 => ~IsLetter(s[i - 1])
    /\ i + Len(kw) <= Len(s) => ~IsLetter(s[i + Len(kw)])

(***************************************************************************)
(* String.prototype.includes: kw starts at some position of s.             *)
(***************************************************************************)
\* A comparison that stops after the first character.
startsWithFirstChar(s, kw, i) == s[i] = kw[1]

startsWithAt(s, kw, i) ==
  s[i] = kw[1] /\ \A j \in 2..Len(kw) : s[i + j - 1] = kw[j]

includes(s, kw) ==
  \E i \in 1..(Len(s) - Len(kw) + 1) : startsWithAt(s, kw, i)

(***************************************************************************)
(* tagTranscript                                                           *)
(***************************************************************************)
\* The guard without its type test.
guardFalsyOnly(text) == Falsy(text)

\* if (!text || typeof text !== "string") return [];
guard(text) == Falsy(text) \/ typeof(text) # "string"

\* A count of occurrences instead of phrases: every position counts.
RECURSIVE countOccurrences(_, _)
countOccurrences(low, keywords) ==
  IF keywords = <<>> THEN 0
  ELSE Cardinality({i \in 1..(Len(low) - Len(Head(keywords)) + 1) :
                      startsWithAt(low, Head(keywords), i)})
         + countOccurrences(low, Tail(keywords))

\* A count that stops at the first phrase found.
RECURSIVE countFirstMatch(_, _)
countFirstMatch(low, keywords) ==
  IF keywords = <<>> THEN 0
  ELSE IF includes(low, Head(keywords)) THEN 1
  ELSE countFirstMatch(low, Tail(keywords))

\* let count = 0; for (const kw of keywords) if (lower.includes(kw)) count++;
RECURSIVE countMatches(_, _)
countMatches(low, keywords) ==
  IF keywords = <<>> THEN 0
  ELSE (IF includes(low, Head(keywords)) THEN 1 ELSE 0)
         + countMatches(low, Tail(keywords))

\* A scoring that credits a shared phrase to the first category declaring it.
declaredEarlier(i, kw) ==
  \E h \in 1..(i - 1) :
    \E j \in 1..Len(TAG_KEYWORDS[h].keywords) : TAG_KEYWORDS[h].keywords[j] = kw
scoreFirstOwner(low) ==
  [i \in 1..Len(TAG_KEYWORDS) |->
     [tag |-> TAG_KEYWORDS[i].tag,
      count |-> countMatches(low,
                  SelectSeq(TAG_KEYWORDS[i].keywords,
                            LAMBDA kw : ~declaredEarlier(i, kw)))]]

\* Object.entries(TAG_KEYWORDS).map(([tag, keywords]) => ({ tag, count }))
scoreAll(low) ==
  [i \in 1..Len(TAG_KEYWORDS) |->
     [tag |-> TAG_KEYWORDS[i].tag,
      count |-> countMatches(low, TAG_KEYWORDS[i].keywords)]]

\* The same map over the entries of a given taxonomy object.
scoreEntries(entries, low) ==
  [i \in 1..Len(entries) |->
     [tag |-> entries[i].tag,
      count |-> countMatches(low, entries[i].keywords)]]

\* A loop that takes the phrases off the list it scans: while (kw = keywords.shift()).
keywordsAfterShift(keywords) == <<>>

\* for (const kw of keywords): the loop reads the list and leaves it as it is.
keywordsAfterScan(keywords) == keywords

\* The taxonomy after the map of lines 41-47 has scanned every list.
taxonomyAfterScoring(entries) ==
  [i \in 1..Len(entries) |->
     [tag |-> entries[i].tag,
      keywords |-> keywordsAfterScan(entries[i].keywords)]]

\* The filter with the bound off by one: a count of 0 passes.
hasMatchOrNone(s) == s.count >= 0

\* .filter((s) => s.count > 0)
hasMatch(s) == s.count > 0
filterScores(sc) == SelectSeq(sc, hasMatch)

\* The comparator with its operands exchanged: ascending counts.
compareAscending(a, b) == a.count - b.count

\* The comparator (a, b) => b.count - a.count.
compare(a, b) == b.count - a.count

\* An insertion that is not stable: x goes before the elements it ties with.
RECURSIVE insertUnstable(_, _)
insertUnstable(sorted, x) ==
  IF sorted = <<>> THEN <<x>>
  ELSE LET last == sorted[Len(sorted)]
           front == SubSeq(sorted, 1, Len(sorted) - 1)
       IN IF compare(last, x) < 0 THEN Append(sorted, x)
          ELSE Append(insertUnstable(front, x), last)

\* Array.prototype.sort with a comparator: a stable sort, here by insertion.
\* x goes after every element that does not compare greater than it.
RECURSIVE insertSorted(_, _)
insertSorted(sorted, x) ==
  IF sorted = <<>> THEN <<x>>
  ELSE LET last == sorted[Len(sorted)]
           front == SubSeq(sorted, 1, Len(sorted) - 1)
       IN IF compare(last, x) <= 0 THEN Append(sorted, x)
          ELSE Append(insertSorted(front, x), last)

RECURSIVE sortScores(_)
sortScores(sc) ==
  IF sc = <<>> THEN <<>>
  ELSE insertSorted(sortScores(SubSeq(sc, 1, Len(sc) - 1)), sc[Len(sc)])

\* The chain without its slice.
sliceNone(sc) == sc

\* A slice that fills the result up to 3 entries with a placeholder.
RECURSIVE slicePadded(_)
slicePadded(sc) ==
  IF Len(sc) >= 3 THEN SubSeq(sc, 1, 3)
  ELSE slicePadded(Append(sc, [tag |-> "untagged", count |-> 0]))

\* A slice that keeps the last 3 entries.
sliceLast3(sc) == SubSeq(sc, IF Len(sc) < 3 THEN 1 ELSE Len(sc) - 2, Len(sc))

\* .slice(0, 3)
slice3(sc) == SubSeq(sc, 1, IF Len(sc) < 3 THEN Len(sc) ELSE 3)

\* .map((s) => s.tag)
tagsOf(sc) == [i \in 1..Len(sc) |-> sc[i].tag]

\* The call: whether it raised, its locals, and the value returned.
\* A value that passes the guard and is no string has no toLowerCase
\* method, so line 39 raises a TypeError.
tagTranscript(text) ==
  IF guard(text)
    THEN [threw |-> FALSE, lower |-> <<>>, scores |-> <<>>, value |-> <<>>]
  ELSE IF typeof(text) # "string"
    THEN [threw |-> TRUE, lower |-> <<>>, scores |-> <<>>, value |-> <<>>]
  ELSE LET low == toLowerCase(text.str)
           sc == scoreAll(low)
       IN [threw |-> FALSE, lower |-> low, scores |-> sc,
           value |-> tagsOf(slice3(sortScores(filterScores(sc))))]

(***************************************************************************)
(* The inputs: the values of the edge-case script, transcripts made of up  *)
(* to MaxFrags phrases, and the example transcripts.                       *)
(***************************************************************************)
NonStrings ==
  { JSValue("null", 0, <<>>), JSValue("undefined", 0, <<>>),
    JSValue("number", 0, <<>>), JSValue("number", 42, <<>>),
    JSValue("boolean", 0, <<>>), JSValue("boolean", 1, <<>>),
    JSValue("object", 0, <<>>), JSValue("array", 0, <<>>) }

Fragments ==
  { <<"d","e","a","d","l","i","n","e">>,
    <<"s","t","e","a","m"," ">>,
    <<"m","u","s","t","a","r","d"," ">>,
    <<"m","e","e","t","i","n","g"," ">>,
    <<"f","a","m","i","l","y"," ","d","i","n","n","e","r"," ">>,
    <<"I","D","E","A"," ">>,
    <<"d","o","n","'","t"," ","f","o","r","g","e","t"," ">>,
    <<"T","o","d","a","y"," ","w","a","s"," ">>,
    <<"U+0131","d","e","a"," ">>,
    <<"t","e","a">> }

(***************************************************************************)
(* The transcripts of the example scripts, each an input on its own.       *)
(***************************************************************************)
\* "What if we brainstorm a concept for the new project? I've been thinking about this idea all week."
Transcript1 ==
  <<"W","h","a","t"," ","i","f"," ","w","e"," ","b","r","a","i","n","s","t",
    "o","r","m"," ","a"," ","c","o","n","c","e","p","t"," ","f","o","r"," ",
    "t","h","e"," ","n","e","w"," ","p","r","o","j","e","c","t","?"," ","I",
    "'","v","e"," ","b","e","e","n"," ","t","h","i","n","k","i","n","g"," ",
    "a","b","o","u","t"," ","t","h","i","s"," ","i","d","e","a"," ","a","l",
    "l"," ","w","e","e","k",".">>

\* "I need to remember to email the client by tomorrow. Don't forget the presentation for the team meeting."
Transcript2 ==
  <<"I"," ","n","e","e","d"," ","t","o"," ","r","e","m","e","m","b","e","r",
    " ","t","o"," ","e","m","a","i","l"," ","t","h","e"," ","c","l","i","e",
    "n","t"," ","b","y"," ","t","o","m","o","r","r","o","w","."," ","D","o",
    "n","'","t"," ","f","o","r","g","e","t"," ","t","h","e"," ","p","r","e",
    "s","e","n","t","a","t","i","o","n"," ","f","o","r"," ","t","h","e"," ",
    "t","e","a","m"," ","m","e","e","t","i","n","g",".">>

\* "Today was a good day. I feel grateful for my family. We had dinner together and the kids were happy."
Transcript3 ==
  <<"T","o","d","a","y"," ","w","a","s"," ","a"," ","g","o","o","d"," ","d",
    "a","y","."," ","I"," ","f","e","e","l"," ","g","r","a","t","e","f","u",
    "l"," ","f","o","r"," ","m","y"," ","f","a","m","i","l","y","."," ","W",
    "e"," ","h","a","d"," ","d","i","n","n","e","r"," ","t","o","g","e","t",
    "h","e","r"," ","a","n","d"," ","t","h","e"," ","k","i","d","s"," ","w",
    "e","r","e"," ","h","a","p","p","y",".">>

\* "the quick brown fox"
QuickBrownFox ==
  <<"t","h","e"," ","q","u","i","c","k"," ","b","r","o","w","n"," ","f","o",
    "x">>

\* "Hello world"
HelloWorld ==
  <<"H","e","l","l","o"," ","w","o","r","l","d">>

Scenarios == {Transcript1, Transcript2, Transcript3, QuickBrownFox, HelloWorld}

RECURSIVE concat(_)
concat(fs) == IF fs = <<>> THEN <<>> ELSE Head(fs) \o concat(Tail(fs))

Transcripts ==
  UNION { { concat(fs) : fs \in [1..n -> Fragments] } : n \in 0..MaxFrags }

Inputs == NonStrings \cup { JSString(t) : t \in Transcripts \cup Scenarios }

(***************************************************************************)
(* Several callers.  Each call has its own activation record, which holds  *)
(* the parameter text, the constants lower and scores, and the array the   *)
(* chain of lines 49-53 is working on.                                     *)
(***************************************************************************)
Undefined == JSValue("undefined", 0, <<>>)

NoLocals == [text |-> Undefined, lower |-> <<>>, scores |-> <<>>, chain |-> <<>>]

\* All callers use one activation record.
frameShared(c) == "c1"

\* The activation record of caller c's call: its own.
frameOf(c) == c

\* What the callers pass.
CallInputs ==
  { JSValue("null", 0, <<>>),
    JSString(<<"d","e","a","d","l","i","n","e">>),
    JSString(<<"I","D","E","A"," ">>),
    JSString(<<"d","o","n","'","t"," ","f","o","r","g","e","t"," ">>) }

CallersIdle ==
  /\ taxonomy = TAG_KEYWORDS
  /\ cpc = [c \in Callers |-> "idle"]
  /\ arg = [c \in Callers |-> Undefined]
  /\ locals = [c \in Callers |-> NoLocals]
  /\ received = [c \in Callers |-> <<>>]
  /\ returned = <<>>
  /\ ncalls = 0

(***************************************************************************)
(* analysis.js: the categories the application computes for a note.        *)
(***************************************************************************)
CATEGORY_KEYWORDS ==
  <<
    [category |-> "todo", keywords |-> <<
         <<"n","e","e","d"," ","t","o">>,
         <<"h","a","v","e"," ","t","o">>,
         <<"s","h","o","u","l","d">>,
         <<"m","u","s","t">>,
         <<"r","e","m","e","m","b","e","r"," ","t","o">>,
         <<"g","o","t"," ","t","o">>,
         <<"g","o","t","t","a">>,
         <<"t","a","s","k">>,
         <<"t","o"," ","d","o">>,
         <<"t","o","-","d","o">>,
         <<"m","a","k","e"," ","s","u","r","e">> >>],
    [category |-> "idea", keywords |-> <<
         <<"w","h","a","t"," ","i","f">>,
         <<"i","d","e","a">>,
         <<"m","a","y","b","e"," ","w","e">>,
         <<"c","o","u","l","d"," ","t","r","y">>,
         <<"h","o","w"," ","a","b","o","u","t">>,
         <<"b","r","a","i","n","s","t","o","r","m">>,
         <<"c","o","n","c","e","p","t">>,
         <<"i","m","a","g","i","n","e">>,
         <<"w","e"," ","c","o","u","l","d">>,
         <<"p","o","s","s","i","b","i","l","i","t","y">> >>],
    [category |-> "question", keywords |-> <<
         <<"h","o","w"," ","d","o">>,
         <<"w","h","a","t"," ","i","s">>,
         <<"w","h","y"," ","d","o","e","s">>,
         <<"w","h","e","n"," ","w","i","l","l">>,
         <<"w","h","e","r","e"," ","c","a","n">>,
         <<"w","h","o"," ","i","s">>,
         <<"i"," ","w","o","n","d","e","r">>,
         <<"f","i","g","u","r","e"," ","o","u","t">>,
         <<"n","o","t"," ","s","u","r","e">>,
         <<"h","o","w"," ","c","o","m","e">> >>],
    [category |-> "reminder", keywords |-> <<
         <<"t","o","m","o","r","r","o","w">>,
         <<"n","e","x","t"," ","w","e","e","k">>,
         <<"m","o","n","d","a","y">>,
         <<"t","u","e","s","d","a","y">>,
         <<"w","e","d","n","e","s","d","a","y">>,
         <<"t","h","u","r","s","d","a","y">>,
         <<"f","r","i","d","a","y">>,
         <<"s","a","t","u","r","d","a","y">>,
         <<"s","u","n","d","a","y">>,
         <<"a","p","p","o","i","n","t","m","e","n","t">>,
         <<"p","i","c","k"," ","u","p">>,
         <<"d","o","n","'","t"," ","f","o","r","g","e","t">>,
         <<"s","c","h","e","d","u","l","e">> >>],
    [category |-> "work", keywords |-> <<
         <<"m","e","e","t","i","n","g">>,
         <<"p","r","o","j","e","c","t">>,
         <<"c","l","i","e","n","t">>,
         <<"e","m","a","i","l">>,
         <<"d","e","a","d","l","i","n","e">>,
         <<"p","r","e","s","e","n","t","a","t","i","o","n">>,
         <<"r","e","p","o","r","t">>,
         <<"o","f","f","i","c","e">>,
         <<"t","e","a","m">>,
         <<"m","a","n","a","g","e","r">>,
         <<"c","o","l","l","e","a","g","u","e">>,
         <<"b","o","s","s">>,
         <<"c","o","w","o","r","k","e","r">> >>],
    [category |-> "personal", keywords |-> <<
         <<"f","a","m","i","l","y">>,
         <<"f","r","i","e","n","d">>,
         <<"b","i","r","t","h","d","a","y">>,
         <<"v","a","c","a","t","i","o","n">>,
         <<"d","i","n","n","e","r">>,
         <<"w","e","e","k","e","n","d">>,
         <<"k","i","d","s">>,
         <<"w","i","f","e">>,
         <<"h","u","s","b","a","n","d">>,
         <<"p","a","r","e","n","t","s">>,
         <<"m","o","m">>,
         <<"d","a","d">> >>],
    [category |-> "health", keywords |-> <<
         <<"d","o","c","t","o","r">>,
         <<"e","x","e","r","c","i","s","e">>,
         <<"w","o","r","k","o","u","t">>,
         <<"s","l","e","e","p">>,
         <<"h","e","a","d","a","c","h","e">>,
         <<"m","e","d","i","c","a","t","i","o","n">>,
         <<"m","e","d","i","c","i","n","e">>,
         <<"s","y","m","p","t","o","m">>,
         <<"d","i","e","t">>,
         <<"g","y","m">>,
         <<"p","h","a","r","m","a","c","y">> >>],
    [category |-> "finance", keywords |-> <<
         <<"p","a","y","m","e","n","t">>,
         <<"b","u","d","g","e","t">>,
         <<"i","n","v","o","i","c","e">>,
         <<"e","x","p","e","n","s","e">>,
         <<"p","r","i","c","e">>,
         <<"c","o","s","t">>,
         <<"m","o","n","e","y">>,
         <<"b","i","l","l">>,
         <<"b","a","n","k">>,
         <<"c","r","e","d","i","t">>,
         <<"d","e","b","t">>,
         <<"s","a","l","a","r","y">>,
         <<"r","e","n","t">> >>]
  >>

CategoryNames == {CATEGORY_KEYWORDS[i].category : i \in 1..Len(CATEGORY_KEYWORDS)}

\* for (const kw of keywords) { if (lower.includes(kw)) { ...; break; } }
matchesAny(low, keywords) ==
  \E j \in 1..Len(keywords) : includes(low, keywords[j])

\* The array `matched` after the loop over Object.entries(CATEGORY_KEYWORDS).
matchedCategories(low) ==
  LET hit(e) == matchesAny(low, e.keywords)
      kept == SelectSeq(CATEGORY_KEYWORDS, hit)
  IN [i \in 1..Len(kept) |-> kept[i].category]

\* categorizeNote(text): whether it raised, and the value returned.  The
\* guard is `if (!text) return []`; a truthy value that is no string has no
\* toLowerCase method.
categorizeNote(text) ==
  IF Falsy(text) THEN [threw |-> FALSE, value |-> <<>>]
  ELSE IF typeof(text) # "string" THEN [threw |-> TRUE, value |-> <<>>]
  ELSE [threw |-> FALSE, value |-> matchedCategories(toLowerCase(text.str))]

(***************************************************************************)
(* app.js: the notes store and the note cards.  A stored note has a        *)
(* transcription, categories (absent until computed), a sentiment label    *)
(* ("null" until the analysis has run) and the completed flag.             *)
(***************************************************************************)
NoteIds == {"n1", "n2"}

NoNote ==
  [present |-> FALSE, transcription |-> <<>>, hasCategories |-> FALSE,
   categories |-> <<>>, sentiment |-> "null", completed |-> FALSE]

\* A note stored before categories existed: transcription only.
LegacyNote(t) == [NoNote EXCEPT !.present = TRUE, !.transcription = t]

\* "I need to prepare for the meeting about the project deadline"
MeetingNote ==
  <<"I"," ","n","e","e","d"," ","t","o"," ","p","r","e","p","a","r","e"," ",
    "f","o","r"," ","t","h","e"," ","m","e","e","t","i","n","g"," ","a","b",
    "o","u","t"," ","t","h","e"," ","p","r","o","j","e","c","t"," ","d","e",
    "a","d","l","i","n","e">>

\* "I need to email the doctor about the payment."
DoctorNote ==
  <<"I"," ","n","e","e","d"," ","t","o"," ","e","m","a","i","l"," ","t","h",
    "e"," ","d","o","c","t","o","r"," ","a","b","o","u","t"," ","t","h","e",
    " ","p","a","y","m","e","n","t",".">>

\* "Test"
TestNote ==
  <<"T","e","s","t">>

\* The transcriptions notes are stored with; the empty one is a recording
\* whose transcription produced nothing.
NoteTranscripts == {<<>>, TestNote, MeetingNote, DoctorNote}

NoCard == [shown |-> FALSE, chips |-> <<>>, note |-> NoNote]

\* createNoteCard: the card keeps the note object it was built from (its
\* handlers close over `note`).  Lines 619-644: the chips of the .note-tags
\* element, the sentiment chip first and then one chip for every category.
createNoteCard(note) ==
  LET hasCategories == note.hasCategories /\ Len(note.categories) > 0
      hasSentiment == note.sentiment \notin {"null", "neutral"}
      sentimentTag == [class |-> "note-tag note-tag-sentiment", text |-> note.sentiment]
      tagFor(cat) == [class |-> "note-tag", text |-> cat]
  IN [shown |-> TRUE,
      note |-> note,
      chips |-> (IF hasSentiment THEN <<sentimentTag>> ELSE <<>>)
                \o (IF hasCategories
                      THEN [i \in 1..Len(note.categories) |-> tagFor(note.categories[i])]
                      ELSE <<>>)]

ListModes == {"capture", "accomplish"}

AppIdle ==
  /\ notes = [id \in NoteIds |-> NoNote]
  /\ cards = [id \in NoteIds |-> NoCard]
  /\ mode = "capture"
  /\ pending = [id \in NoteIds |-> NoNote]

(***************************************************************************)
(* app.js: the record button.                                              *)
(***************************************************************************)
Handlers == {"h1", "h2"}

RecorderIdle ==
  /\ recordBusy = FALSE
  /\ isRecording = FALSE
  /\ currentListId = "null"
  /\ mediaRecorder = "null"
  /\ recordHint = "Tap to record"
  /\ hpc = [h \in Handlers |-> "idle"]
  /\ clicks = 0
  /\ ignored = 0

(***************************************************************************)
(* analysis.js: the sentiment model loader.                                *)
(***************************************************************************)
\* let sentimentPipeline = null; let pipelineLoading = null;
LoaderIdle ==
  /\ sentimentPipeline = "null"
  /\ pipelineLoading = 0
  /\ loads = <<>>
  /\ loaderLog = <<>>

(***************************************************************************)
(* app.js: speech transcription.                                           *)
(***************************************************************************)
\* let speechRecognition = null; let transcriptionResult = '';
TranscriptionIdle ==
  /\ speechRecognition = 0
  /\ transcriptionResult = <<>>
  /\ recognizers = <<>>
  /\ stops = <<>>

(***************************************************************************)
(* The state machine: one call of tagTranscript on one input.              *)
(***************************************************************************)
Init ==
  /\ input \in Inputs
  /\ pc = "ready"
  /\ lower = <<>>
  /\ scores = <<>>
  /\ result = <<>>
  /\ CallersIdle
  /\ AppIdle
  /\ RecorderIdle
  /\ LoaderIdle
  /\ TranscriptionIdle

TagTranscript ==
  /\ pc = "ready"
  /\ \E r \in {tagTranscript(input)} :
       /\ pc' = IF r.threw THEN "threw" ELSE "returned"
       /\ lower' = r.lower
       /\ scores' = r.scores
       /\ result' = r.value
  /\ UNCHANGED input
  /\ UNCHANGED <<callVars, loadVars, sttVars, appVars, recVars>>

Next == TagTranscript

Spec == Init /\ [][Next]_vars

(***************************************************************************)
(* The state machine of the callers: a call is made, runs line by line,    *)
(* and its value is taken by the caller.                                   *)
(***************************************************************************)
CallsInit ==
  /\ input = Undefined
  /\ pc = "ready"
  /\ lower = <<>>
  /\ scores = <<>>
  /\ result = <<>>
  /\ CallersIdle
  /\ AppIdle
  /\ RecorderIdle
  /\ LoaderIdle
  /\ TranscriptionIdle

\* tagTranscript(text): caller c enters the function.
Call(c, v) ==
  /\ cpc[c] = "idle"
  /\ ncalls < MaxCalls
  /\ ncalls' = ncalls + 1
  /\ arg' = [arg EXCEPT ![c] = v]
  /\ locals' = [locals EXCEPT ![frameOf(c)] = [NoLocals EXCEPT !.text = v]]
  /\ cpc' = [cpc EXCEPT ![c] = "line37"]
  /\ UNCHANGED <<tagVars, loadVars, sttVars, appVars, recVars, taxonomy, received, returned>>

\* Line 37: if (!text || typeof text !== "string") return [];
Guard(c) ==
  /\ cpc[c] = "line37"
  /\ IF guard(locals[frameOf(c)].text)
       THEN /\ received' = [received EXCEPT ![c] = <<>>]
            /\ cpc' = [cpc EXCEPT ![c] = "returned"]
       ELSE /\ cpc' = [cpc EXCEPT ![c] = "line39"]
            /\ UNCHANGED received
  /\ UNCHANGED <<tagVars, loadVars, sttVars, appVars, recVars, taxonomy, arg, locals, returned, ncalls>>

\* Line 39: const lower = text.toLowerCase(); a TypeError when text has no
\* such method.
Lower(c) ==
  /\ cpc[c] = "line39"
  /\ LET text == locals[frameOf(c)].text
     IN IF typeof(text) # "string"
          THEN /\ cpc' = [cpc EXCEPT ![c] = "threw"]
               /\ UNCHANGED locals
          ELSE /\ cpc' = [cpc EXCEPT ![c] = "line41"]
               /\ locals' = [locals EXCEPT ![frameOf(c)].lower = toLowerCase(text.str)]
  /\ UNCHANGED <<tagVars, loadVars, sttVars, appVars, recVars, taxonomy, arg, received, returned, ncalls>>

\* Lines 41-47: const scores = Object.entries(TAG_KEYWORDS).map(...)
Score(c) ==
  /\ cpc[c] = "line41"
  /\ locals' = [locals EXCEPT ![frameOf(c)].scores =
                  scoreEntries(taxonomy, locals[frameOf(c)].lower)]
  /\ taxonomy' = taxonomyAfterScoring(taxonomy)
  /\ cpc' = [cpc EXCEPT ![c] = "line50"]
  /\ UNCHANGED <<tagVars, loadVars, sttVars, appVars, recVars, arg, received, returned, ncalls>>

\* Line 50: scores.filter(...), a new array.
Filter(c) ==
  /\ cpc[c] = "line50"
  /\ locals' = [locals EXCEPT ![frameOf(c)].chain =
                  filterScores(locals[frameOf(c)].scores)]
  /\ cpc' = [cpc EXCEPT ![c] = "line51"]
  /\ UNCHANGED <<tagVars, loadVars, sttVars, appVars, recVars, taxonomy, arg, received, returned, ncalls>>

\* Line 51: .sort(...), in place on the array the filter made.
Sort(c) ==
  /\ cpc[c] = "line51"
  /\ locals' = [locals EXCEPT ![frameOf(c)].chain = sortScores(@)]
  /\ cpc' = [cpc EXCEPT ![c] = "line52"]
  /\ UNCHANGED <<tagVars, loadVars, sttVars, appVars, recVars, taxonomy, arg, received, returned, ncalls>>

\* Line 52: .slice(0, 3), a new array.
Slice(c) ==
  /\ cpc[c] = "line52"
  /\ locals' = [locals EXCEPT ![frameOf(c)].chain = slice3(@)]
  /\ cpc' = [cpc EXCEPT ![c] = "line53"]
  /\ UNCHANGED <<tagVars, loadVars, sttVars, appVars, recVars, taxonomy, arg, received, returned, ncalls>>

\* Line 53: .map((s) => s.tag) is the value returned.
Map(c) ==
  /\ cpc[c] = "line53"
  /\ received' = [received EXCEPT ![c] = tagsOf(locals[frameOf(c)].chain)]
  /\ cpc' = [cpc EXCEPT ![c] = "returned"]
  /\ UNCHANGED <<tagVars, loadVars, sttVars, appVars, recVars, taxonomy, arg, locals, returned, ncalls>>

\* The caller takes the value; its activation record is gone.
Resume(c) ==
  /\ cpc[c] = "returned"
  /\ returned' = Append(returned, [input |-> arg[c], value |-> received[c]])
  /\ cpc' = [cpc EXCEPT ![c] = "idle"]
  /\ UNCHANGED <<tagVars, loadVars, sttVars, appVars, recVars, taxonomy, arg, locals, received, ncalls>>

CallsNext ==
  \E c \in Callers :
    \/ \E v \in CallInputs : Call(c, v)
    \/ Guard(c)
    \/ Lower(c)
    \/ Score(c)
    \/ Filter(c)
    \/ Sort(c)
    \/ Slice(c)
    \/ Map(c)
    \/ Resume(c)

CallsSpec == CallsInit /\ [][CallsNext]_vars

\* On load the store holds the notes of earlier sessions, some of them
\* written before categories existed; no analysis is running.
AppInit ==
  /\ input = Undefined
  /\ pc = "ready"
  /\ lower = <<>>
  /\ scores = <<>>
  /\ result = <<>>
  /\ CallersIdle
  /\ RecorderIdle
  /\ LoaderIdle
  /\ TranscriptionIdle
  /\ notes \in [NoteIds -> {NoNote} \cup {LegacyNote(t) : t \in NoteTranscripts}]
  /\ cards = [id \in NoteIds |-> NoCard]
  /\ mode \in ListModes
  /\ pending = [id \in NoteIds |-> NoNote]

\* renderListDetail, lines 947-953: the cards are rebuilt from the notes of
\* the store.
renderListDetail(stored) ==
  [id \in NoteIds |->
     IF stored[id].present THEN createNoteCard(stored[id]) ELSE NoCard]

\* The labels the sentiment classifier can answer with (analysis.js, 61-83).
SentimentLabels == {"positive", "negative", "neutral"}

\* The record button handler, lines 1266-1296: a recording ends, its
\* transcription is stored as a new note with its categories, the list is
\* rendered again, and the background analysis starts on the note object
\* unless the transcription is empty.  The id is a fresh UUID.
SaveRecording(id, t) ==
  /\ ~notes[id].present
  /\ ~pending[id].present
  /\ \E r \in {categorizeNote(JSString(t))} :
       /\ ~r.threw
       /\ \E note \in {[present |-> TRUE, transcription |-> t,
                        hasCategories |-> TRUE, categories |-> r.value,
                        sentiment |-> "null", completed |-> FALSE]} :
            /\ notes' = [notes EXCEPT ![id] = note]
            /\ pending' = IF t # <<>> THEN [pending EXCEPT ![id] = note]
                                      ELSE pending
  /\ cards' = renderListDetail(notes')
  /\ UNCHANGED <<tagVars, loadVars, sttVars, callVars, recVars, mode>>

\* showListDetailView, lines 1104-1111: the list is opened and rendered.
ShowListDetailView ==
  /\ cards' = renderListDetail(notes)
  /\ cards' # cards
  /\ UNCHANGED <<tagVars, loadVars, sttVars, callVars, recVars, notes, mode, pending>>

\* n.transcription && !n.categories
needsCategories(note) ==
  note.present /\ note.transcription # <<>> /\ ~note.hasCategories

\* n.transcription && !n.sentiment
needsSentiment(note) ==
  note.present /\ note.transcription # <<>> /\ note.sentiment = "null"

\* The note object of processUnanalyzedNotes after its categorization loop.
categorized(note) ==
  IF needsCategories(note)
    THEN [note EXCEPT !.hasCategories = TRUE,
                      !.categories = categorizeNote(JSString(note.transcription)).value]
    ELSE note

\* processUnanalyzedNotes, lines 1054-1073: the notes are read; every note
\* that has a transcription and no categories gets its categories and is
\* saved, and the list is rendered again; then the analysis starts on the note
\* objects that have no sentiment (one analysis per note at a time).
ProcessUnanalyzedNotes ==
  /\ \E id \in NoteIds :
       \/ needsCategories(notes[id])
       \/ needsSentiment(notes[id]) /\ ~pending[id].present
  /\ notes' = [id \in NoteIds |-> categorized(notes[id])]
  /\ cards' = IF \E id \in NoteIds : needsCategories(notes[id])
                THEN renderListDetail(notes') ELSE cards
  /\ pending' = [id \in NoteIds |->
                   IF needsSentiment(notes[id]) /\ ~pending[id].present
                     THEN categorized(notes[id]) ELSE pending[id]]
  /\ UNCHANGED <<tagVars, loadVars, sttVars, callVars, recVars, mode>>

\* The background sentiment analysis, lines 1077-1082 and 1294-1299: the
\* classifier answers, the label is set on the note object the analysis
\* holds, that object is saved with put, and the list is rendered again.
AnalyzeSentiment(id, label) ==
  /\ pending[id].present
  /\ notes' = [notes EXCEPT ![id] = [pending[id] EXCEPT !.sentiment = label]]
  /\ pending' = [pending EXCEPT ![id] = NoNote]
  /\ cards' = renderListDetail(notes')
  /\ UNCHANGED <<tagVars, loadVars, sttVars, callVars, recVars, mode>>

\* The delete button of a card, lines 746-767: the note of the card is
\* deleted from the store and the list is rendered again.
DeleteNote(id) ==
  /\ cards[id].shown
  /\ notes' = [notes EXCEPT ![id] = NoNote]
  /\ cards' = renderListDetail(notes')
  /\ UNCHANGED <<tagVars, loadVars, sttVars, callVars, recVars, mode, pending>>

\* The checkbox of a card in accomplish mode, lines 590-594: the flag is set
\* on the note object of the card, that object is saved with put, and the
\* list is rendered again.
ToggleCompleted(id) ==
  /\ mode = "accomplish"
  /\ cards[id].shown
  /\ notes' = [notes EXCEPT ![id] =
                 [cards[id].note EXCEPT !.completed = ~cards[id].note.completed]]
  /\ cards' = renderListDetail(notes')
  /\ UNCHANGED <<tagVars, loadVars, sttVars, callVars, recVars, mode, pending>>

AppNext ==
  \/ \E id \in NoteIds : \E t \in NoteTranscripts : SaveRecording(id, t)
  \/ ShowListDetailView
  \/ ProcessUnanalyzedNotes
  \/ \E id \in NoteIds : \E label \in SentimentLabels : AnalyzeSentiment(id, label)
  \/ \E id \in NoteIds : DeleteNote(id)
  \/ \E id \in NoteIds : ToggleCompleted(id)

AppSpec == AppInit /\ [][AppNext]_vars

(***************************************************************************)
(* The state machine of one call of categorizeNote on one input.           *)
(***************************************************************************)
\* The values categorizeNote is called with: the values that are no strings,
\* and transcriptions.
CategorizeInputs ==
  NonStrings \cup
  { JSString(t) : t \in NoteTranscripts \cup Scenarios
                        \cup { concat(<<a, b>>) : a, b \in Fragments } }

CategorizeInit ==
  /\ input \in CategorizeInputs
  /\ pc = "ready"
  /\ lower = <<>>
  /\ scores = <<>>
  /\ result = <<>>
  /\ CallersIdle
  /\ AppIdle
  /\ RecorderIdle
  /\ LoaderIdle
  /\ TranscriptionIdle

\* categorizeNote(text): the call runs to its return or to its exception.
CategorizeNote ==
  /\ pc = "ready"
  /\ \E r \in {categorizeNote(input)} :
       /\ pc' = IF r.threw THEN "threw" ELSE "returned"
       /\ result' = r.value
  /\ UNCHANGED <<input, lower, scores>>
  /\ UNCHANGED <<callVars, loadVars, sttVars, appVars, recVars>>

CategorizeNext == CategorizeNote

CategorizeSpec == CategorizeInit /\ [][CategorizeNext]_vars

(***************************************************************************)
(* The state machine of the record button: the click handler of lines      *)
(* 1241-1330 taken from await to await, with several clicks in flight.     *)
(***************************************************************************)
RecordInit ==
  /\ input = Undefined
  /\ pc = "ready"
  /\ lower = <<>>
  /\ scores = <<>>
  /\ result = <<>>
  /\ CallersIdle
  /\ AppIdle
  /\ LoaderIdle
  /\ TranscriptionIdle
  /\ recordBusy = FALSE
  /\ isRecording = FALSE
  /\ currentListId \in {"null", "list-1"}
  /\ mediaRecorder = "null"
  /\ recordHint = "Tap to record"
  /\ hpc = [h \in Handlers |-> "idle"]
  /\ clicks = 0
  /\ ignored = 0

\* A guard that lets every click through.
busyGuardOff(busy) == FALSE

\* if (recordBusy) return;
busyGuard(busy) == busy

\* The `finally` block: recordBusy = false, and the handler run is over.
Finally(h) ==
  /\ recordBusy' = FALSE
  /\ hpc' = [hpc EXCEPT ![h] = "idle"]

\* A click: the handler runs up to its first await.  On the stop path
\* stopRecording returns null at once when there is no active recorder, and
\* otherwise stops the recorder and waits for the transcription and the blob.
Click(h) ==
  /\ hpc[h] = "idle"
  /\ clicks < MaxClicks
  /\ clicks' = clicks + 1
  /\ IF busyGuard(recordBusy)
       THEN /\ ignored' = ignored + 1
            /\ UNCHANGED <<recordBusy, isRecording, currentListId,
                           mediaRecorder, recordHint, hpc>>
     ELSE IF currentListId = "null"
       THEN UNCHANGED <<recordBusy, isRecording, currentListId,
                        mediaRecorder, recordHint, hpc, ignored>>
     ELSE /\ recordBusy' = TRUE
          /\ IF isRecording
               THEN /\ recordHint' = "Tap to record"
                    /\ IF mediaRecorder = "recording"
                         THEN /\ mediaRecorder' = "inactive"
                              /\ hpc' = [hpc EXCEPT ![h] = "stopRecording"]
                         ELSE /\ mediaRecorder' = "null"
                              /\ hpc' = [hpc EXCEPT ![h] = "stopRecording: null"]
               ELSE /\ hpc' = [hpc EXCEPT ![h] = "startRecording"]
                    /\ UNCHANGED <<recordHint, mediaRecorder>>
          /\ UNCHANGED <<isRecording, currentListId, ignored>>
  /\ UNCHANGED <<tagVars, loadVars, sttVars, callVars, appVars>>

\* await startRecording() resolves: the recorder runs.
StartRecordingResolves(h) ==
  /\ hpc[h] = "startRecording"
  /\ mediaRecorder' = "recording"
  /\ isRecording' = TRUE
  /\ recordHint' = "Tap to stop"
  /\ Finally(h)
  /\ UNCHANGED <<currentListId, clicks, ignored>>
  /\ UNCHANGED <<tagVars, loadVars, sttVars, callVars, appVars>>

\* The hints of the catch block.
CatchHints == {"Recording not supported in this browser", "Microphone access denied"}

\* The `catch` block.
Catch(hint) ==
  /\ isRecording' = FALSE
  /\ recordHint' = hint

\* await startRecording() rejects: no MediaRecorder, or no microphone.
StartRecordingRejects(h, hint) ==
  /\ hpc[h] = "startRecording"
  /\ Catch(hint)
  /\ Finally(h)
  /\ UNCHANGED <<currentListId, mediaRecorder, clicks, ignored>>
  /\ UNCHANGED <<tagVars, loadVars, sttVars, callVars, appVars>>

\* await stopRecording() resolves: with null, with a recording too short to
\* keep, or with a recording that is then saved.
StopRecordingResolves(h, long) ==
  /\ hpc[h] \in {"stopRecording", "stopRecording: null"}
  /\ isRecording' = FALSE
  /\ mediaRecorder' = "null"
  /\ IF hpc[h] = "stopRecording: null"
       THEN Finally(h) /\ UNCHANGED recordHint
     ELSE IF long
       THEN /\ hpc' = [hpc EXCEPT ![h] = "saveNote"]
            /\ UNCHANGED <<recordBusy, recordHint>>
     ELSE /\ recordHint' = "Too short U+2014 hold longer"
          /\ Finally(h)
  /\ UNCHANGED <<currentListId, clicks, ignored>>
  /\ UNCHANGED <<tagVars, loadVars, sttVars, callVars, appVars>>

\* The awaits of the save (getList, saveNote, saveList, renderListDetail)
\* resolve, or one of them rejects.
SaveResolves(h) ==
  /\ hpc[h] = "saveNote"
  /\ Finally(h)
  /\ UNCHANGED <<isRecording, currentListId, mediaRecorder, recordHint, clicks, ignored>>
  /\ UNCHANGED <<tagVars, loadVars, sttVars, callVars, appVars>>

SaveRejects(h, hint) ==
  /\ hpc[h] = "saveNote"
  /\ Catch(hint)
  /\ Finally(h)
  /\ UNCHANGED <<currentListId, mediaRecorder, clicks, ignored>>
  /\ UNCHANGED <<tagVars, loadVars, sttVars, callVars, appVars>>

\* mediaRecorder.onerror, lines 489-498.
MediaRecorderError ==
  /\ mediaRecorder = "recording"
  /\ isRecording' = FALSE
  /\ recordHint' = "Recording error U+2014 try again"
  /\ mediaRecorder' = "null"
  /\ UNCHANGED <<recordBusy, currentListId, hpc, clicks, ignored>>
  /\ UNCHANGED <<tagVars, loadVars, sttVars, callVars, appVars>>

\* showListDetailView and showListsView set currentListId.
OpenList ==
  /\ currentListId = "null"
  /\ currentListId' = "list-1"
  /\ UNCHANGED <<recordBusy, isRecording, mediaRecorder, recordHint, hpc, clicks, ignored>>
  /\ UNCHANGED <<tagVars, loadVars, sttVars, callVars, appVars>>

CloseList ==
  /\ currentListId # "null"
  /\ currentListId' = "null"
  /\ UNCHANGED <<recordBusy, isRecording, mediaRecorder, recordHint, hpc, clicks, ignored>>
  /\ UNCHANGED <<tagVars, loadVars, sttVars, callVars, appVars>>

RecordNext ==
  \/ \E h \in Handlers : Click(h)
  \/ \E h \in Handlers : StartRecordingResolves(h)
  \/ \E h \in Handlers : \E hint \in CatchHints : StartRecordingRejects(h, hint)
  \/ \E h \in Handlers : \E long \in BOOLEAN : StopRecordingResolves(h, long)
  \/ \E h \in Handlers : SaveResolves(h)
  \/ \E h \in Handlers : \E hint \in CatchHints : SaveRejects(h, hint)
  \/ MediaRecorderError
  \/ OpenList
  \/ CloseList

RecordSpec == RecordInit /\ [][RecordNext]_vars

(***************************************************************************)
(* The state machine of the sentiment model loader: calls of               *)
(* loadSentimentPipeline (analysis.js, lines 37-59) and the two awaits of  *)
(* each load it starts.                                                    *)
(***************************************************************************)
LoadInit ==
  /\ input = Undefined
  /\ pc = "ready"
  /\ lower = <<>>
  /\ scores = <<>>
  /\ result = <<>>
  /\ CallersIdle
  /\ AppIdle
  /\ RecorderIdle
  /\ LoaderIdle
  /\ TranscriptionIdle

\* A load is in flight until its last await has resolved or one has rejected.
LoadStates == {"import", "pipeline", "loaded", "failed"}
InFlight == {i \in 1..Len(loads) : loads[i] \in {"import", "pipeline"}}

\* A loader that never finds a load in progress.
loadingNever(loading) == FALSE

\* if (pipelineLoading) return pipelineLoading;
loadingInProgress(loading) == loading # 0

\* A catch block that keeps the promise of the failed load.
loadingKept(loading) == loading

\* catch: pipelineLoading = null
loadingAfterFailure(loading) == 0

\* loadSentimentPipeline(): the cached model, or the promise of the load in
\* progress, or the promise of a load it starts; the load runs up to its
\* first await, the import.
LoadSentimentPipeline ==
  /\ Len(loaderLog) < MaxLoaderCalls
  /\ IF sentimentPipeline # "null"
       THEN /\ loaderLog' = Append(loaderLog, [model |-> TRUE, load |-> 0])
            /\ UNCHANGED <<pipelineLoading, loads>>
     ELSE IF loadingInProgress(pipelineLoading)
       THEN /\ loaderLog' = Append(loaderLog, [model |-> FALSE, load |-> pipelineLoading])
            /\ UNCHANGED <<pipelineLoading, loads>>
     ELSE /\ Len(loads) < MaxLoads
          /\ loads' = Append(loads, "import")
          /\ pipelineLoading' = Len(loads) + 1
          /\ loaderLog' = Append(loaderLog, [model |-> FALSE, load |-> Len(loads) + 1])
  /\ UNCHANGED sentimentPipeline
  /\ UNCHANGED <<tagVars, callVars, appVars, recVars, sttVars>>

\* await import('@huggingface/transformers') resolves.
ImportResolves(i) ==
  /\ i \in 1..Len(loads)
  /\ loads[i] = "import"
  /\ loads' = [loads EXCEPT ![i] = "pipeline"]
  /\ UNCHANGED <<sentimentPipeline, pipelineLoading, loaderLog>>
  /\ UNCHANGED <<tagVars, callVars, appVars, recVars, sttVars>>

\* await pipeline(...) resolves: sentimentPipeline = the model.
PipelineResolves(i) ==
  /\ i \in 1..Len(loads)
  /\ loads[i] = "pipeline"
  /\ loads' = [loads EXCEPT ![i] = "loaded"]
  /\ sentimentPipeline' = "model"
  /\ UNCHANGED <<pipelineLoading, loaderLog>>
  /\ UNCHANGED <<tagVars, callVars, appVars, recVars, sttVars>>

\* One of the two awaits rejects: the catch block.
LoadFails(i) ==
  /\ i \in 1..Len(loads)
  /\ loads[i] \in {"import", "pipeline"}
  /\ loads' = [loads EXCEPT ![i] = "failed"]
  /\ pipelineLoading' = loadingAfterFailure(pipelineLoading)
  /\ UNCHANGED <<sentimentPipeline, loaderLog>>
  /\ UNCHANGED <<tagVars, callVars, appVars, recVars, sttVars>>

LoadNext ==
  \/ LoadSentimentPipeline
  \/ \E i \in 1..MaxLoads : ImportResolves(i)
  \/ \E i \in 1..MaxLoads : PipelineResolves(i)
  \/ \E i \in 1..MaxLoads : LoadFails(i)

LoadSpec == LoadInit /\ [][LoadNext]_vars

(***************************************************************************)
(* The order of a list's notes: renderListDetail, lines 905-934 of app.js  *)
(* (orderNotes in the tests), as the state machine of one call.  A note is *)
(* its id, its createdAt and its completed flag.                           *)
(***************************************************************************)
NoteNames == <<"n1", "n2", "n3", "n4", "n5", "n6">>
OrderIds == {NoteNames[i] : i \in 1..MaxNotes}

\* The id of a note that is not in the store any more.
GoneId == "gone"

\* createdAt values: two notes can carry the same one.
Times == 1..2

\* The arrays getNotesByList returns: the notes of the list in the order of
\* their keys, each id at most once.
RECURSIVE notesFrom(_)
notesFrom(i) ==
  IF i > MaxNotes THEN {<<>>}
  ELSE LET rest == notesFrom(i + 1)
       IN rest \cup
          { <<[id |-> NoteNames[i], createdAt |-> t, completed |-> c]>> \o r :
              t \in Times, c \in BOOLEAN, r \in rest }
NoteArrays == notesFrom(1)

\* The values of list.noteOrder: ids in any order, ids of deleted notes and
\* repeated ids included.
RECURSIVE ordersUpTo(_)
ordersUpTo(n) ==
  IF n = 0 THEN {<<>>}
  ELSE LET shorter == ordersUpTo(n - 1)
       IN shorter \cup { <<nid>> \o o : nid \in OrderIds \cup {GoneId},
                                         o \in {p \in shorter : Len(p) = n - 1} }
NoteOrders == ordersUpTo(MaxOrder)

\* A loop over noteOrder that leaves the map as it is.
mapEntryKept(left, nid) == left

\* delete noteMap[nid]
mapEntryDeleted(left, nid) == left \ {nid}

\* for (const nid of list.noteOrder) { if (noteMap[nid]) { ordered.push(...);
\* delete noteMap[nid]; } }: the ids pushed, `left` being the keys of noteMap.
RECURSIVE orderedIds(_, _)
orderedIds(order, left) ==
  IF order = <<>> THEN <<>>
  ELSE IF Head(order) \in left
    THEN <<Head(order)>> \o orderedIds(Tail(order), mapEntryDeleted(left, Head(order)))
  ELSE orderedIds(Tail(order), left)

\* The comparator (a, b) => b.createdAt > a.createdAt ? 1 : ... ? -1 : 0.
compareCreatedAt(a, b) ==
  IF b.createdAt > a.createdAt THEN 1
  ELSE IF b.createdAt < a.createdAt THEN -1 ELSE 0

\* Array.prototype.sort with that comparator: stable.
RECURSIVE insertByCreatedAt(_, _)
insertByCreatedAt(sorted, n) ==
  IF sorted = <<>> THEN <<n>>
  ELSE IF compareCreatedAt(Head(sorted), n) > 0
    THEN <<n>> \o sorted
  ELSE <<Head(sorted)>> \o insertByCreatedAt(Tail(sorted), n)

RECURSIVE sortByCreatedAt(_)
sortByCreatedAt(ns) ==
  IF ns = <<>> THEN <<>>
  ELSE insertByCreatedAt(sortByCreatedAt(SubSeq(ns, 1, Len(ns) - 1)), ns[Len(ns)])

\* The note of the array with the given id.
noteOf(ns, nid) == ns[CHOOSE i \in 1..Len(ns) : ns[i].id = nid]

\* Lines 905-925: noteOrder first, then the notes it does not name, newest
\* first; without a noteOrder all notes newest first.
baseOrder(ns, order) ==
  IF Len(order) > 0
    THEN LET ids == orderedIds(order, {ns[i].id : i \in 1..Len(ns)})
             placed == {ids[i] : i \in 1..Len(ids)}
             isRemaining(n) == n.id \notin placed
         IN [i \in 1..Len(ids) |-> noteOf(ns, ids[i])]
            \o sortByCreatedAt(SelectSeq(ns, isRemaining))
  ELSE sortByCreatedAt(ns)

\* Lines 927-933: completed notes move to the bottom in accomplish mode.
orderNotes(ns, order, listMode) ==
  LET based == baseOrder(ns, order)
      isIncomplete(n) == ~n.completed
      isCompleted(n) == n.completed
  IN IF listMode = "accomplish"
       THEN SelectSeq(based, isIncomplete) \o SelectSeq(based, isCompleted)
       ELSE based

OrderInit ==
  /\ input \in [notes : NoteArrays, noteOrder : NoteOrders, mode : ListModes]
  /\ pc = "ready"
  /\ lower = <<>>
  /\ scores = <<>>
  /\ result = <<>>
  /\ CallersIdle
  /\ AppIdle
  /\ RecorderIdle
  /\ LoaderIdle
  /\ TranscriptionIdle

OrderNotes ==
  /\ pc = "ready"
  /\ pc' = "returned"
  /\ result' = orderNotes(input.notes, input.noteOrder, input.mode)
  /\ UNCHANGED <<input, lower, scores>>
  /\ UNCHANGED <<callVars, appVars, recVars, loadVars, sttVars>>

OrderNext == OrderNotes

OrderSpec == OrderInit /\ [][OrderNext]_vars

(***************************************************************************)
(* The state machine of speech transcription: startTranscription and       *)
(* stopTranscription (app.js, lines 367-439), their callers, the timer and *)
(* the events of the recognizers.  A recognizer is "started", "stopping"   *)
(* (stop() was called), "ending" (it fired onerror, its onend will follow) *)
(* or "ended"; its onerror and onend handlers are those of                 *)
(* createRecognition (handler 0) or the `done` of a stopTranscription call *)
(* (the number of that call).                                              *)
(***************************************************************************)
Phrases == {"hello", "world"}

TranscriptionInit ==
  /\ input = Undefined
  /\ pc = "ready"
  /\ lower = <<>>
  /\ scores = <<>>
  /\ result = <<>>
  /\ CallersIdle
  /\ AppIdle
  /\ RecorderIdle
  /\ LoaderIdle
  /\ TranscriptionIdle

\* createRecognition() and recognition.start(): one more recognizer.
created(rs) == Append(rs, [state |-> "started", handler |-> 0])

\* The record button starts a recording (lines 1310-1311; startRecording
\* ends with startTranscription()): the text is reset, a recognizer is
\* created and started, and isRecording is set.
StartTranscription ==
  /\ ~isRecording
  /\ ~recordBusy
  /\ Len(recognizers) < MaxRecognizers
  /\ transcriptionResult' = <<>>
  /\ recognizers' = created(recognizers)
  /\ speechRecognition' = Len(recognizers) + 1
  /\ isRecording' = TRUE
  /\ UNCHANGED <<stops, recordBusy, currentListId, mediaRecorder, recordHint,
                 hpc, clicks, ignored>>
  /\ UNCHANGED <<tagVars, callVars, appVars, loadVars>>

\* The same in a browser without SpeechRecognition: startTranscription
\* returns at its guard.
StartWithoutRecognition ==
  /\ ~isRecording
  /\ ~recordBusy
  /\ speechRecognition = 0
  /\ recognizers = <<>>
  /\ isRecording' = TRUE
  /\ UNCHANGED <<sttVars, recordBusy, currentListId, mediaRecorder, recordHint,
                 hpc, clicks, ignored>>
  /\ UNCHANGED <<tagVars, callVars, appVars, loadVars>>

\* recognition.onresult: a final result is added to the text.  This handler
\* stays on the recognizer for its whole life.
OnResult(r, phrase) ==
  /\ r \in 1..Len(recognizers)
  /\ recognizers[r].state \in {"started", "stopping"}
  /\ Len(transcriptionResult) < MaxPhrases
  /\ transcriptionResult' = Append(transcriptionResult, phrase)
  /\ UNCHANGED <<speechRecognition, recognizers, stops>>
  /\ UNCHANGED <<tagVars, callVars, appVars, recVars, loadVars>>

\* stopTranscription(), lines 411-439, up to its return: with no recognizer
\* the promise is resolved with the text and the text is reset; otherwise
\* the reference is cleared, `done` becomes the recognizer's onend and
\* onerror, and the timer is set.
stopTranscription(awaited) ==
  IF speechRecognition = 0
    THEN /\ stops' = Append(stops, [state |-> "resolved", value |-> transcriptionResult,
                                    timer |-> "none", rec |-> 0, awaited |-> awaited])
         /\ transcriptionResult' = <<>>
         /\ UNCHANGED <<speechRecognition, recognizers>>
    ELSE /\ stops' = Append(stops, [state |-> "pending", value |-> <<>>,
                                    timer |-> "set", rec |-> speechRecognition,
                                    awaited |-> awaited])
         /\ recognizers' = [recognizers EXCEPT ![speechRecognition].handler = Len(stops) + 1]
         /\ speechRecognition' = 0
         /\ UNCHANGED transcriptionResult

\* The record button stops the recording (lines 1248-1253; stopRecording
\* awaits stopTranscription()).
ClickStop ==
  /\ isRecording
  /\ ~recordBusy
  /\ Len(stops) < MaxStops
  /\ recordBusy' = TRUE
  /\ stopTranscription(TRUE)
  /\ UNCHANGED <<isRecording, currentListId, mediaRecorder, recordHint,
                 hpc, clicks, ignored>>
  /\ UNCHANGED <<tagVars, callVars, appVars, loadVars>>

\* mediaRecorder.onerror, lines 489-498: isRecording is cleared and
\* stopTranscription() is called, its promise dropped.
RecorderError ==
  /\ isRecording
  /\ ~recordBusy
  /\ Len(stops) < MaxStops
  /\ isRecording' = FALSE
  /\ stopTranscription(FALSE)
  /\ UNCHANGED <<recordBusy, currentListId, mediaRecorder, recordHint,
                 hpc, clicks, ignored>>
  /\ UNCHANGED <<tagVars, callVars, appVars, loadVars>>

\* The click handler goes on once the promise it awaits is resolved
\* (lines 1253-1254 and the finally block).
StopReturns(p) ==
  /\ p \in 1..Len(stops)
  /\ stops[p].awaited
  /\ stops[p].state = "resolved"
  /\ recordBusy
  /\ stops' = [stops EXCEPT ![p].awaited = FALSE]
  /\ isRecording' = FALSE
  /\ recordBusy' = FALSE
  /\ UNCHANGED <<speechRecognition, transcriptionResult, recognizers>>
  /\ UNCHANGED <<currentListId, mediaRecorder, recordHint, hpc, clicks, ignored>>
  /\ UNCHANGED <<tagVars, callVars, appVars, loadVars>>

\* done(), lines 419-423, of call p: the text is taken and reset, and the
\* promise is resolved with it (resolving a resolved promise does nothing).
done(p, ss) ==
  IF ss[p].state = "pending"
    THEN [ss EXCEPT ![p].state = "resolved", ![p].value = transcriptionResult]
    ELSE ss

\* The timer of call p, lines 431-437: recognition.stop(), and done() when
\* it throws.  stop() on a recognizer that is not started does nothing.
Timer(p, throws) ==
  /\ p \in 1..Len(stops)
  /\ stops[p].timer = "set"
  /\ IF throws
       THEN /\ stops' = done(p, [stops EXCEPT ![p].timer = "fired"])
            /\ transcriptionResult' = <<>>
            /\ UNCHANGED recognizers
       ELSE /\ stops' = [stops EXCEPT ![p].timer = "fired"]
            /\ recognizers' =
                 [recognizers EXCEPT ![stops[p].rec].state =
                    IF @ = "started" THEN "stopping" ELSE @]
            /\ UNCHANGED transcriptionResult
  /\ UNCHANGED speechRecognition
  /\ UNCHANGED <<tagVars, callVars, appVars, recVars, loadVars>>

\* A recognizer fires onerror; its onend follows.  The handler of
\* createRecognition calls recognition.stop() when this is the recognizer of
\* the running recording; the handler of stopTranscription is done().
OnError(r) ==
  /\ r \in 1..Len(recognizers)
  /\ recognizers[r].state \in {"started", "stopping"}
  /\ recognizers' = [recognizers EXCEPT ![r].state = "ending"]
  /\ IF recognizers[r].handler = 0
       THEN UNCHANGED <<stops, transcriptionResult>>
       ELSE /\ stops' = done(recognizers[r].handler, stops)
            /\ transcriptionResult' = <<>>
  /\ UNCHANGED speechRecognition
  /\ UNCHANGED <<tagVars, callVars, appVars, recVars, loadVars>>

\* A recognizer fires onend.  The handler of createRecognition starts a new
\* recognizer when this is the recognizer of the running recording; the
\* handler of stopTranscription is done().
OnEnd(r) ==
  /\ r \in 1..Len(recognizers)
  /\ recognizers[r].state \in {"started", "stopping", "ending"}
  /\ IF recognizers[r].handler = 0
       THEN /\ IF isRecording /\ speechRecognition = r
                 THEN /\ Len(recognizers) < MaxRecognizers
                      /\ recognizers' = created([recognizers EXCEPT ![r].state = "ended"])
                      /\ speechRecognition' = Len(recognizers) + 1
                 ELSE /\ recognizers' = [recognizers EXCEPT ![r].state = "ended"]
                      /\ UNCHANGED speechRecognition
            /\ UNCHANGED <<stops, transcriptionResult>>
       ELSE /\ recognizers' = [recognizers EXCEPT ![r].state = "ended"]
            /\ stops' = done(recognizers[r].handler, stops)
            /\ transcriptionResult' = <<>>
            /\ UNCHANGED speechRecognition
  /\ UNCHANGED <<tagVars, callVars, appVars, recVars, loadVars>>

TranscriptionNext ==
  \/ StartTranscription
  \/ StartWithoutRecognition
  \/ \E r \in 1..MaxRecognizers : \E phrase \in Phrases : OnResult(r, phrase)
  \/ ClickStop
  \/ RecorderError
  \/ \E p \in 1..MaxStops : StopReturns(p)
  \/ \E p \in 1..MaxStops : \E throws \in BOOLEAN : Timer(p, throws)
  \/ \E r \in 1..MaxRecognizers : OnError(r)
  \/ \E r \in 1..MaxRecognizers : OnEnd(r)

TranscriptionSpec == TranscriptionInit /\ [][TranscriptionNext]_vars

(***************************************************************************)
(* The terms of the claims, stated apart from the code's computation.      *)
(***************************************************************************)
\* kw occurs in s: some contiguous run of s is kw.
Occurs(kw, s) ==
  \E i \in 1..(Len(s) - Len(kw) + 1) :
    s[i] = kw[1] /\ SubSeq(s, i, i + Len(kw) - 1) = kw

\* The position of a category in the declaration order, and its phrases.
DeclIndex(tag) == CHOOSE i \in 1..Len(TAG_KEYWORDS) : TAG_KEYWORDS[i].tag = tag
KeywordsOf(tag) == TAG_KEYWORDS[DeclIndex(tag)].keywords

\* Match count: the number of distinct phrases of the category found in s.
MatchCount(tag, s) ==
  LET kws == KeywordsOf(tag)
  IN Cardinality({j \in 1..Len(kws) : Occurs(kws[j], s)})

\* The call returned, and its argument was a string that passed the guard.
ReturnedForString == pc = "returned" /\ input.type = "string" /\ input.str # <<>>

\* C1: for every falsy or non-string input (null, undefined, "", 0, 42, an
\* object, an array) the call raises no exception and returns the empty
\* sequence.
C1_InvalidInputYieldsEmpty ==
  (input \in NonStrings \/ input = JSString(<<>>)) =>
     /\ pc # "threw"
     /\ pc = "returned" => result = <<>> /\ scores = <<>>

C1_Witness ==
  /\ pc = "returned"
  /\ input = JSValue("number", 42, <<>>)
  /\ result = <<>>

\* C2: for every string input the call returns at most 3 category names.
C2_AtMostThree ==
  pc = "returned" /\ input.type = "string" =>
     /\ Len(result) <= 3
     /\ \A i \in 1..Len(result) : result[i] \in TagNames

\* More than 3 categories matched, and 3 names came back.
C2_Witness ==
  /\ ReturnedForString
  /\ Cardinality({t \in TagNames : MatchCount(t, lower) > 0}) > 3
  /\ Len(result) = 3

\* C3: every category name returned has at least one of its own phrases
\* occurring in the lowercased input; a category with match count 0 is never
\* returned.
C3_ReturnedCategoriesMatch ==
  pc = "returned" /\ input.type = "string" =>
    \A i \in 1..Len(result) :
      /\ \E j \in 1..Len(KeywordsOf(result[i])) :
            Occurs(KeywordsOf(result[i])[j], lower)
      /\ MatchCount(result[i], lower) # 0

\* Fewer than 3 categories matched, so only the filter decided the result.
C3_Witness ==
  /\ ReturnedForString
  /\ Len(result) \in {1, 2}
  /\ \E t \in TagNames :
       /\ MatchCount(t, lower) = 0
       /\ \A i \in 1..Len(result) : result[i] # t

\* C4: if A and B are both returned and A's match count is strictly greater
\* than B's, A comes before B.
C4_RankedByCountDescending ==
  pc = "returned" /\ input.type = "string" =>
    \A i, j \in 1..Len(result) :
      MatchCount(result[i], lower) > MatchCount(result[j], lower) => i < j

\* A category declared later came first because its count is greater.
C4_Witness ==
  /\ ReturnedForString
  /\ \E i, j \in 1..Len(result) :
       /\ i < j
       /\ MatchCount(result[i], lower) > MatchCount(result[j], lower)
       /\ DeclIndex(result[i]) > DeclIndex(result[j])

\* C5: two returned categories with equal match counts come in declaration
\* order (idea, todo, reminder, journal, work, personal).
C5_TiesInDeclarationOrder ==
  pc = "returned" /\ input.type = "string" =>
    \A i, j \in 1..Len(result) :
      /\ MatchCount(result[i], lower) = MatchCount(result[j], lower)
      /\ DeclIndex(result[i]) < DeclIndex(result[j])
      => i < j

\* Two returned categories tie, behind a category with a greater count.
C5_Witness ==
  /\ ReturnedForString
  /\ Len(result) = 3
  /\ MatchCount(result[1], lower) > MatchCount(result[2], lower)
  /\ MatchCount(result[2], lower) = MatchCount(result[3], lower)
  /\ DeclIndex(result[2]) < DeclIndex(result[3])

\* The categories with at least one phrase in the lowercased input.
Matched == {t \in TagNames : MatchCount(t, lower) > 0}

\* C6: the result is never padded: the number of names returned is
\* min(3, number of categories with a match), and the names are distinct
\* categories, none a placeholder.
C6_NeverPadded ==
  pc = "returned" /\ input.type = "string" =>
    LET matched == Matched
        k == Cardinality(matched)
    IN /\ Len(result) = (IF k < 3 THEN k ELSE 3)
       /\ \A i \in 1..Len(result) : result[i] \in matched
       /\ \A i, j \in 1..Len(result) : result[i] = result[j] => i = j

\* Two categories matched and exactly two names came back.
C6_Witness ==
  /\ ReturnedForString
  /\ Cardinality(Matched) = 2
  /\ Len(result) = 2

\* Every phrase of the taxonomy occurring in the lowercased input.
PhrasesFound ==
  {kw \in UNION {{KeywordsOf(t)[j] : j \in 1..Len(KeywordsOf(t))} : t \in TagNames} :
     Occurs(kw, lower)}

\* The positions at which kw starts in s.
Positions(kw, s) ==
  {i \in 1..(Len(s) - Len(kw) + 1) : SubSeq(s, i, i + Len(kw) - 1) = kw}

Deadline == <<"d","e","a","d","l","i","n","e">>

\* C7: one occurrence of a phrase listed under several categories adds 1 to
\* each: a transcript with "deadline" and no other phrase scores reminder 1
\* and work 1, every other category 0, and returns both.
C7_SharedPhraseCountsForEach ==
  ReturnedForString /\ PhrasesFound = {Deadline} =>
    /\ \A i \in 1..Len(scores) :
         scores[i].count = (IF scores[i].tag \in {"reminder", "work"} THEN 1 ELSE 0)
    /\ result = <<"reminder", "work">>

\* "deadline" occurs once, among words that are no phrase.
C7_Witness ==
  /\ ReturnedForString
  /\ PhrasesFound = {Deadline}
  /\ Cardinality(Positions(Deadline, lower)) = 1
  /\ Len(lower) > Len(Deadline)
  /\ result = <<"reminder", "work">>

\* C8: a category's match count is the number of distinct phrases of the
\* category found, not the number of occurrences: a repeated phrase adds
\* exactly 1, and no count exceeds the size of the category's phrase list.
C8_CountsDistinctPhrases ==
  ReturnedForString =>
    /\ Len(scores) = Len(TAG_KEYWORDS)
    /\ \A i \in 1..Len(scores) :
         /\ scores[i].tag = TAG_KEYWORDS[i].tag
         /\ scores[i].count = MatchCount(scores[i].tag, lower)
         /\ scores[i].count <= Len(TAG_KEYWORDS[i].keywords)

Meeting == <<"m","e","e","t","i","n","g">>

\* "meeting" said more than once with "family" and "dinner" once each:
\* personal, count 2, is ranked before work, count 1.
C8_Witness ==
  /\ ReturnedForString
  /\ Cardinality(Positions(Meeting, lower)) > 1
  /\ scores[DeclIndex("work")].count = 1
  /\ scores[DeclIndex("personal")].count = 2
  /\ result = <<"personal", "work">>

\* C9: matching is literal substring containment with no word-boundary
\* check: a category scores at least 1 exactly when one of its phrases
\* occurs contiguously in the lowercased text, also inside a longer word.
C9_PlainSubstringMatch ==
  ReturnedForString =>
    \A i \in 1..Len(scores) :
      scores[i].count >= 1 <=>
        \E j \in 1..Len(TAG_KEYWORDS[i].keywords) :
          Occurs(TAG_KEYWORDS[i].keywords[j], lower)

\* kw starts at i, touching a letter on at least one side.
InsideWord(kw, s, i) ==
  \/ i > 1 /\ IsLetter(s[i - 1])
  \/ i + Len(kw) <= Len(s) /\ IsLetter(s[i + Len(kw)])

\* "steam" scores work through "team": the only phrase found is "team", and
\* each of its occurrences lies inside a longer word.  Likewise "mustard".
C9_Witness ==
  /\ ReturnedForString
  /\ PhrasesFound = {<<"t","e","a","m">>}
  /\ \A i \in Positions(<<"t","e","a","m">>, lower) :
       InsideWord(<<"t","e","a","m">>, lower, i)
  /\ result = <<"work">>

\* Every character of s is an ASCII character.
IsAscii(s) ==
  \A i \in 1..Len(s) :
    s[i] \notin {"U+00DF", "U+0130", "U+0131", "U+017F", "U+0307", "U+212A"}

\* The result for the uppercased argument.
ResultForUpperCase == tagTranscript(JSString(toUpperCase(input.str))).value

\* C10 as stated: for any string x, tagTranscript(x) equals
\* tagTranscript(uppercase(x)).
C10_Original ==
  pc = "returned" /\ input.type = "string" => result = ResultForUpperCase

\* C10, amended: for any string x of ASCII characters, tagTranscript(x)
\* equals tagTranscript(uppercase(x)).
C10_CaseInsensitiveOnAscii ==
  pc = "returned" /\ input.type = "string" /\ IsAscii(input.str) =>
    result = ResultForUpperCase

\* An ASCII transcript of mixed case with a phrase in capitals.
C10_Witness ==
  /\ ReturnedForString
  /\ IsAscii(input.str)
  /\ input.str # lower
  /\ input.str # toUpperCase(input.str)
  /\ result # <<>>
  /\ result = ResultForUpperCase

\* C12: for a non-empty string the result is empty exactly when no phrase of
\* any category occurs in its lowercased form; "the quick brown fox" and
\* "Hello world" both yield the empty sequence.
C12_EmptyIffNoPhrase ==
  ReturnedForString =>
    /\ result = <<>> <=> PhrasesFound = {}
    /\ input.str \in {QuickBrownFox, HelloWorld} => result = <<>>

C12_Witness ==
  /\ ReturnedForString
  /\ input.str = QuickBrownFox
  /\ PhrasesFound = {}
  /\ result = <<>>

\* The count the call computed for a category.
CountOf(tag) == scores[DeclIndex(tag)].count

\* C15: for Transcript2 the counts are work 5, todo 3, reminder 2 ("don't
\* forget" counted for both todo and reminder) and 0 for every other
\* category, and the result is exactly [work, todo, reminder].
C15_Transcript2 ==
  pc = "returned" /\ input = JSString(Transcript2) =>
    /\ CountOf("work") = 5
    /\ CountOf("todo") = 3
    /\ CountOf("reminder") = 2
    /\ CountOf("idea") = 0 /\ CountOf("journal") = 0 /\ CountOf("personal") = 0
    /\ Occurs(<<"d","o","n","'","t"," ","f","o","r","g","e","t">>, lower)
    /\ result = <<"work", "todo", "reminder">>

C15_Witness ==
  /\ pc = "returned"
  /\ input = JSString(Transcript2)
  /\ MatchCount("work", lower) = 5
  /\ result = <<"work", "todo", "reminder">>

\* C16: for Transcript1 the result has exactly 3 elements, the first is idea
\* with 5 distinct idea phrases matched, and the full result is
\* [idea, journal, work].
C16_Transcript1 ==
  pc = "returned" /\ input = JSString(Transcript1) =>
    /\ Len(result) = 3
    /\ result[1] = "idea"
    /\ CountOf("idea") = 5
    /\ result = <<"idea", "journal", "work">>

C16_Witness ==
  /\ pc = "returned"
  /\ input = JSString(Transcript1)
  /\ MatchCount("idea", lower) = 5
  /\ result = <<"idea", "journal", "work">>

\* C17: for Transcript3 the result is exactly the 2-element sequence
\* [journal, personal].
C17_Transcript3 ==
  pc = "returned" /\ input = JSString(Transcript3) =>
    result = <<"journal", "personal">>

C17_Witness ==
  /\ pc = "returned"
  /\ input = JSString(Transcript3)
  /\ Matched = {"journal", "personal"}
  /\ result = <<"journal", "personal">>

\* The categories returned.
Returned == {result[i] : i \in 1..Len(result)}

C11_Deterministic ==
  \A i, j \in 1..Len(returned) :
    returned[i].input = returned[j].input => returned[i].value = returned[j].value

\* The same transcript was tagged twice with a call of another input
\* completing in between, and the value is not empty.
C11_Witness ==
  \E i, j, k \in 1..Len(returned) :
    /\ i < k /\ k < j
    /\ returned[i].input = returned[j].input
    /\ returned[k].input # returned[i].input
    /\ returned[k].value # <<>>
    /\ Len(returned[i].value) = 2

\* C13: a call changes nothing: the taxonomy (names, order, phrase lists) is
\* the same after every step of a call as before it, for valid and invalid
\* inputs, and so are the argument, locals and value of every other caller.
C13_CallChangesNothing ==
  [][/\ taxonomy' = taxonomy
     /\ \A c \in Callers :
          cpc'[c] = cpc[c] =>
            /\ arg'[c] = arg[c]
            /\ locals'[c] = locals[c]
            /\ received'[c] = received[c]]_vars

\* A call with an invalid input and a call that returned tags have both
\* completed.
C13_Witness ==
  /\ taxonomy = TAG_KEYWORDS
  /\ \E i, j \in 1..Len(returned) :
       /\ returned[i].input.type = "null"
       /\ returned[j].value # <<>>

\* C14: under any interleaving of the callers' invocations each caller
\* receives the result it would receive when run alone.
C14_AsIfAlone ==
  \A c \in Callers :
    /\ cpc[c] = "returned" => received[c] = tagTranscript(arg[c]).value
    /\ cpc[c] = "threw" => tagTranscript(arg[c]).threw

\* Two calls with different transcripts were in progress together and both
\* have returned their own tags.
C14_Witness ==
  /\ cpc["c1"] = "returned" /\ cpc["c2"] = "returned"
  /\ arg["c1"] # arg["c2"]
  /\ received["c1"] # <<>> /\ received["c2"] # <<>>
  /\ received["c1"] # received["c2"]

\* The chips of a card that show a category.
CategoryChips(card) ==
  {i \in 1..Len(card.chips) : card.chips[i].class = "note-tag"}

\* C18: a note card never displays more than 3 tag chips.
C18_AtMostThreeChips ==
  \A id \in NoteIds : cards[id].shown => Cardinality(CategoryChips(cards[id])) <= 3

\* The phrases of a category of analysis.js.
CategoryKeywords(cat) ==
  CATEGORY_KEYWORDS[CHOOSE i \in 1..Len(CATEGORY_KEYWORDS) :
                      CATEGORY_KEYWORDS[i].category = cat].keywords

\* C19: every label sequence the application computes and stores on a note
\* is a tag result: 0 to 3 category names, each with at least one phrase in
\* the note's lowercased transcription.
C19_StoredLabelsAreTagResult ==
  \A id \in NoteIds :
    notes[id].present /\ notes[id].hasCategories =>
      /\ Len(notes[id].categories) <= 3
      /\ \A i \in 1..Len(notes[id].categories) :
           /\ notes[id].categories[i] \in CategoryNames
           /\ \E j \in 1..Len(CategoryKeywords(notes[id].categories[i])) :
                Occurs(CategoryKeywords(notes[id].categories[i])[j],
                       toLowerCase(notes[id].transcription))

\* C30 as stated: for Transcript3 journal's match count is strictly greater
\* than personal's.
C30_Original ==
  pc = "returned" /\ input = JSString(Transcript3) =>
    CountOf("journal") > CountOf("personal")

\* C30: for Transcript3 journal and personal have the same match count, 3
\* each, and journal precedes personal in the result because it is declared
\* earlier.
C30_JournalFirstByTieBreak ==
  pc = "returned" /\ input = JSString(Transcript3) =>
    /\ CountOf("journal") = 3
    /\ CountOf("personal") = 3
    /\ DeclIndex("journal") < DeclIndex("personal")
    /\ result[1] = "journal"
    /\ result[2] = "personal"

C30_Witness ==
  /\ pc = "returned"
  /\ input = JSString(Transcript3)
  /\ MatchCount("journal", lower) = MatchCount("personal", lower)
  /\ Len(result) = 2

\* The categories stored on a note.
StoredCategories(note) == {note.categories[i] : i \in 1..Len(note.categories)}

\* C27: a stored note whose transcription is MeetingNote and which has no
\* categories ends up, after the step that computes them, with exactly three:
\* work, todo and reminder.
C27_RecoveryGivesWorkTodoReminder ==
  [][\A id \in NoteIds :
       needsCategories(notes[id]) /\ notes[id].transcription = MeetingNote
         /\ notes'[id].hasCategories =>
           /\ Len(notes'[id].categories) = 3
           /\ StoredCategories(notes'[id]) = {"work", "todo", "reminder"}]_vars

\* C28: for every falsy or non-string input (null, undefined, "", 0, 42, an
\* object, an array) categorizeNote raises no exception and returns the empty
\* sequence.
C28_InvalidInputYieldsEmpty ==
  (input \in NonStrings \/ input = JSString(<<>>)) =>
     /\ pc # "threw"
     /\ pc = "returned" => result = <<>>

\* C21: a note that was deleted while its analysis is pending stays deleted:
\* no step writes it back into the store.
C21_DeletedStaysDeleted ==
  [][\A id \in NoteIds :
       pending[id].present /\ ~notes[id].present => ~notes'[id].present]_vars

\* C22: the step that stores the result of a note's analysis leaves the
\* completed flag of the stored record as it was.
C22_AnalysisWriteKeepsCompleted ==
  [][\A id \in NoteIds :
       pending[id].present /\ ~pending'[id].present /\ notes[id].present =>
         notes'[id].completed = notes[id].completed]_vars

\* The handler runs that are between their first await and their end.
InProgress == {h \in Handlers : hpc[h] # "idle"}

\* C23: at most one click is being handled at any time, so startRecording and
\* stopRecording never run concurrently; a click made while one is being
\* handled changes nothing; and the busy flag is set exactly while a handler
\* run is in progress, so it is cleared when the run ends, by success or by
\* failure.
C23_ClicksSerialized ==
  [][/\ Cardinality(InProgress') <= 1
     /\ recordBusy' <=> InProgress' # {}
     /\ recordBusy /\ clicks' # clicks =>
          UNCHANGED <<recordBusy, isRecording, currentListId, mediaRecorder,
                      recordHint, hpc>>]_vars

C23_Witness ==
  /\ ignored >= 1
  /\ recordBusy
  /\ \E h \in Handlers : hpc[h] = "stopRecording"
  /\ recordHint = "Tap to record"

\* A step that is a call of the loader, and what that call returned.
LoaderCalled == Len(loaderLog') > Len(loaderLog)
LoaderReturned == loaderLog'[Len(loaderLog')]

\* C25: at most one load is in flight at any time; a call of the loader made
\* while a load is in flight returns that load's promise and starts no load;
\* a call made after a load has succeeded returns the cached model and starts
\* no load.
C25_OneLoadShared ==
  [][/\ Cardinality(InFlight') <= 1
     /\ LoaderCalled =>
          /\ \A i \in InFlight :
               /\ LoaderReturned = [model |-> FALSE, load |-> i]
               /\ loads' = loads
          /\ (\E i \in 1..Len(loads) : loads[i] = "loaded") =>
               /\ LoaderReturned.model
               /\ loads' = loads]_vars

C25_Witness ==
  /\ Len(loaderLog) >= 2
  /\ \E i \in InFlight :
       /\ loaderLog[Len(loaderLog) - 1].load = i
       /\ loaderLog[Len(loaderLog)].load = i

\* C26: a failed load is never the cached one, and the call of the loader
\* that follows a failed load starts a new load and returns its promise.
C26_FailedLoadNotCached ==
  [][/\ \A i \in 1..Len(loads') : loads'[i] = "failed" => pipelineLoading' # i
     /\ LoaderCalled /\ sentimentPipeline = "null" /\ loads # <<>>
          /\ loads[Len(loads)] = "failed" =>
            /\ loads' = Append(loads, "import")
            /\ LoaderReturned = [model |-> FALSE, load |-> Len(loads) + 1]]_vars

C26_Witness ==
  /\ Len(loads) >= 2
  /\ loads[1] = "failed"
  /\ InFlight = {2}
  /\ pipelineLoading = 2
  /\ loaderLog[Len(loaderLog)].load = 2

\* The first place of an id in the noteOrder of the input, 0 when absent.
FirstPlace(nid) ==
  IF \E i \in 1..Len(input.noteOrder) : input.noteOrder[i] = nid
    THEN CHOOSE i \in 1..Len(input.noteOrder) :
           /\ input.noteOrder[i] = nid
           /\ \A j \in 1..(i - 1) : input.noteOrder[j] # nid
    ELSE 0

\* Note a may stand before note b: both named in noteOrder and a named
\* first, or only a named, or neither named and a not older than b.
MayPrecede(a, b) ==
  IF FirstPlace(a.id) > 0 /\ FirstPlace(b.id) > 0
    THEN FirstPlace(a.id) < FirstPlace(b.id)
  ELSE IF FirstPlace(a.id) > 0 THEN TRUE
  ELSE IF FirstPlace(b.id) > 0 THEN FALSE
  ELSE a.createdAt >= b.createdAt

ResolvedNow ==
  {p \in 1..Len(stops') :
     /\ stops'[p].state = "resolved"
     /\ p \in 1..Len(stops) => stops[p].state = "pending"}

\* C24: when a call of stopTranscription resolves, it resolves with the text
\* accumulated so far, and after that step the accumulated text is empty and
\* the recognizer reference is null; and a recognizer that was stopped is
\* never the cause of a new recognizer being started.
C24_ResolvesAndClears ==
  [][/\ \A p \in ResolvedNow :
          /\ stops'[p].value = transcriptionResult
          /\ transcriptionResult' = <<>>
          /\ speechRecognition' = 0
     /\ \A r \in 1..Len(recognizers) :
          recognizers[r].handler # 0 /\ recognizers'[r].state # recognizers[r].state =>
            Len(recognizers') = Len(recognizers)]_vars

====
